---- MODULE Spec2Model ----
(***************************************************************************)
(* Model of the Orbit class of src/orbit.py: extrema of the radial         *)
(* distance and of |z| (pericenter, apocenter, zmax, eccentricity), the    *)
(* radial period, the circulation of the angular momentum, the alignment   *)
(* of the circulation axis with z, and the memoized hamiltonian property.  *)
(*                                                                         *)
(* Numbers are fixed-point integers.  Positions and velocities are         *)
(* integer vectors; the angular momentum pos x vel is counted in units of  *)
(* 1e-14, so that the threshold 1E-13 of circulation() is 10 units.        *)
(* Array indices are 1-based: index 0 of the code is index 1 here and      *)
(* index len-1 is index Len.                                               *)
(***************************************************************************)
EXTENDS Integers, Sequences, FiniteSets, TLC

VARIABLES pos, vel, t, shape, potential, frame, _hamiltonian, built,
          call, result, log

vars == <<pos, vel, t, shape, potential, frame, _hamiltonian, built,
          call, result, log>>

(***************************************************************************)
(* Bounds of the model.                                                    *)
(***************************************************************************)
MaxTimes == 4
MaxOrbits == 2
MaxCircTimes == 2
MaxReads == 4
MaxEccTimes == 6

\* Batches of the extrema specification are one sample shorter than MaxTimes.
BatchTimes == MaxTimes - 1

(***************************************************************************)
(* Sample data.  Three positions with radial distances 1, 3, 5 and         *)
(* |z| = 0, 2, 0, and five phase-space points whose angular momenta are    *)
(* (20,20,20), (-20,20,0), (20,-20,5), (5,5,-20) and (0,0,0).              *)
(***************************************************************************)
Zero3 == <<0, 0, 0>>

ExtremaPoints == {<<1, 0, 0>>, <<2, -1, -2>>, <<3, 4, 0>>}

\* the two positions body n of a batch runs through
BatchPoints(n) ==
    IF n % 2 = 1 THEN << <<1, 0, 0>>, <<2, -1, -2>> >>
    ELSE << <<2, -1, -2>>, <<3, 4, 0>> >>

CircPoints ==
    << [p |-> <<-4, 0, 4>>,  v |-> <<0, -5, 5>>],
       [p |-> <<-4, -4, 0>>, v |-> <<0, 0, 5>>],
       [p |-> <<-1, 0, 4>>,  v |-> <<-5, -5, 0>>],
       [p |-> <<-4, 0, -1>>, v |-> <<-1, 5, 1>>],
       [p |-> <<2, 0, 0>>,   v |-> <<3, 0, 0>> ] >>

\* the points (indices of CircPoints) the other bodies of a batch run through
CircBatchPoints == {1, 2}

\* t is None
NoTime == << >>

(***************************************************************************)
(* Generic helpers.                                                        *)
(***************************************************************************)
Abs(x) == IF x < 0 THEN -x ELSE x

Sign(x) == IF x > 0 THEN 1 ELSE IF x < 0 THEN -1 ELSE 0

Last(s) == s[Len(s)]

RECURSIVE SumSeq(_)
SumSeq(s) == IF s = << >> THEN 0 ELSE s[1] + SumSeq(Tail(s))

MinSeq(s) == CHOOSE x \in {s[i] : i \in 1..Len(s)} : \A i \in 1..Len(s) : x <= s[i]

MaxSeq(s) == CHOOSE x \in {s[i] : i \in 1..Len(s)} : \A i \in 1..Len(s) : x >= s[i]

Neg(s) == [i \in 1..Len(s) |-> -s[i]]

\* the elements of a set of integers in increasing order
RECURSIVE SortedSeq(_)
SortedSeq(S) ==
    IF S = {} THEN << >>
    ELSE LET m == CHOOSE x \in S : \A y \in S : x <= y
         IN <<m>> \o SortedSeq(S \ {m})

ISqrt(n) == CHOOSE k \in 0..n : k * k <= n /\ (k + 1) * (k + 1) > n

Raise(exc) == [kind |-> "raise", exc |-> exc]

IsRaise(x) == x.kind = "raise"

(***************************************************************************)
(* The orbit object: position and velocity arrays of shape                 *)
(* (ntimes,) or (ntimes, norbits), and the time array.  pos[k][n] is the   *)
(* position of body n at sample k (n = 1 only, for a single orbit).        *)
(***************************************************************************)
Self == [pos |-> pos, vel |-> vel, t |-> t, shape |-> shape]

ntimes(o) == o.shape[1]

norbits(o) == IF Len(o.shape) < 2 THEN 1 ELSE o.shape[2]

\* variant: only the time array is reversed
getitem_rev_time_only(o) ==
    LET n == Len(o.pos)
    IN [pos   |-> o.pos,
        vel   |-> o.vel,
        t     |-> IF o.t = NoTime THEN NoTime
                  ELSE [k \in 1..n |-> o.t[n + 1 - k]],
        shape |-> o.shape]

\* self[::-1]
getitem_rev(o) ==
    LET n == Len(o.pos)
    IN [pos   |-> [k \in 1..n |-> o.pos[n + 1 - k]],
        vel   |-> [k \in 1..n |-> o.vel[n + 1 - k]],
        t     |-> IF o.t = NoTime THEN NoTime
                  ELSE [k \in 1..n |-> o.t[n + 1 - k]],
        shape |-> o.shape]

\* self[:, i]
getitem_col(o, i) ==
    [pos   |-> [k \in 1..Len(o.pos) |-> <<o.pos[k][i]>>],
     vel   |-> [k \in 1..Len(o.vel) |-> <<o.vel[k][i]>>],
     t     |-> o.t,
     shape |-> <<o.shape[1]>>]

\* variant: every item is the first body
orbit_gen_first(o) ==
    IF norbits(o) = 1 THEN <<o>>
    ELSE [i \in 1..norbits(o) |-> getitem_col(o, 1)]

orbit_gen(o) ==
    IF norbits(o) = 1 THEN <<o>>
    ELSE [i \in 1..norbits(o) |-> getitem_col(o, i)]

(***************************************************************************)
(* The representation layer: radial distance, vertical coordinate and      *)
(* angular momentum of every sample.                                       *)
(***************************************************************************)
physicsspherical_r(o) ==
    [k \in 1..Len(o.pos) |->
        [n \in 1..Len(o.pos[k]) |->
            LET p == o.pos[k][n]
            IN ISqrt(p[1] * p[1] + p[2] * p[2] + p[3] * p[3])]]

cylindrical_z(o) ==
    [k \in 1..Len(o.pos) |-> [n \in 1..Len(o.pos[k]) |-> o.pos[k][n][3]]]

Cross(p, v) ==
    << p[2] * v[3] - p[3] * v[2],
       p[3] * v[1] - p[1] * v[3],
       p[1] * v[2] - p[2] * v[1] >>

\* L[a][k][n]: component a at sample k of body n
angular_momentum(o) ==
    [a \in 1..3 |->
        [k \in 1..Len(o.pos) |->
            [n \in 1..Len(o.pos[k]) |-> Cross(o.pos[k][n], o.vel[k][n])[a]]]]

\* the series of body n of a (time, body) array
Column(arr2, n) == [k \in 1..Len(arr2) |-> arr2[k][n]]

(***************************************************************************)
(* Extrema of a series.                                                    *)
(***************************************************************************)
\* order of the interpolating spline (interp_kwargs 'k')
SplineOrder == 3

\* scipy.signal.argrelmax(x, mode='wrap')[0]: the indices whose element is
\* strictly greater than both neighbours, the neighbours taken cyclically
argrelmax_wrap(x) ==
    LET n == Len(x)
        prev(i) == IF i = 1 THEN n ELSE i - 1
        next(i) == IF i = n THEN 1 ELSE i + 1
    IN {i \in 1..n : x[i] > x[prev(i)] /\ x[i] > x[next(i)]}

\* variant: only index 0 is removed
remove_edges_first(ix, n) == {i \in ix : i # 1}

\* _ix[(_ix != 0) & (_ix != (len(arr)-1))]
remove_edges(ix, n) == {i \in ix : i # 1 /\ i # n}

\* The value of a refined extremum is not computed: it is the term
\* sign * (-interp_func(better_time)) of the minimisation seeded at `seed`.
_max_helper(o, arr, approximate) ==
    IF norbits(o) # 1 THEN Raise("AssertionError")
    ELSE IF o.t = NoTime THEN Raise("TypeError")
    ELSE IF ~(Last(o.t) > o.t[1]) THEN Raise("AssertionError")
    ELSE
      LET _ix == SortedSeq(remove_edges(argrelmax_wrap(arr), Len(arr)))
          approx_arr == [j \in 1..Len(_ix) |-> arr[_ix[j]]]
          approx_t   == [j \in 1..Len(_ix) |-> o.t[_ix[j]]]
      IN IF approximate
         THEN [kind |-> "ok", refined |-> FALSE,
               vals |-> approx_arr, times |-> approx_t]
         ELSE IF Len(arr) <= SplineOrder
         THEN Raise("SplineError")
         ELSE [kind |-> "ok", refined |-> TRUE,
               vals  |-> [j \in 1..Len(_ix) |-> [seed |-> _ix[j], sign |-> 1]],
               times |-> [j \in 1..Len(_ix) |-> [seed |-> _ix[j]]]]

(***************************************************************************)
(* The reducer func: None (the identity), numpy mean, min or max.  A       *)
(* reduced value is the fraction num/den; den = 0 is not-a-number.         *)
(***************************************************************************)
Funcs == {"None", "mean", "min", "max"}

NaN == [num |-> 0, den |-> 0]

\* variant: the values are not negated back
negate_keep(v, refined) == v

\* -v of a sequence of values or of refined terms
negate(v, refined) ==
    IF refined
    THEN [j \in 1..Len(v) |-> [seed |-> v[j].seed, sign |-> -v[j].sign]]
    ELSE Neg(v)

apply_func(func, v, refined) ==
    IF func = "None" THEN [kind |-> "ok", val |-> v]
    ELSE IF func = "mean"
    THEN IF Len(v) = 0 THEN [kind |-> "ok", val |-> NaN]
         ELSE IF refined THEN [kind |-> "ok", val |-> [sym |-> "mean", of |-> v]]
         ELSE [kind |-> "ok", val |-> [num |-> SumSeq(v), den |-> Len(v)]]
    ELSE IF Len(v) = 0 THEN Raise("ValueError")
    ELSE IF refined THEN [kind |-> "ok", val |-> [sym |-> func, of |-> v]]
    ELSE [kind |-> "ok",
          val |-> [num |-> IF func = "min" THEN MinSeq(v) ELSE MaxSeq(v),
                   den |-> 1]]

\* u.Quantity(vals) of a list of arrays of unequal lengths fails; the kind of
\* the exception depends on the numpy version
RaggedErrors == {"ValueError", "TypeError"}

IsRagged(vals) == \E i, j \in 1..Len(vals) : Len(vals[i]) # Len(vals[j])

\* variant: values and times are returned whatever return_times says
_max_return_helper_pair(o, vals, times, return_times, reduce) ==
    IF Len(vals) = 1
    THEN {[kind |-> "pair", nested |-> FALSE,
           vals |-> vals[1], times |-> times[1]]}
    ELSE {[kind |-> "pair", nested |-> TRUE, vals |-> vals, times |-> times]}

\* the set of outcomes of _max_return_helper
_max_return_helper(o, vals, times, return_times, reduce) ==
    IF return_times
    THEN IF Len(vals) = 1
         THEN {[kind |-> "pair", nested |-> FALSE,
                vals |-> vals[1], times |-> times[1]]}
         ELSE {[kind |-> "pair", nested |-> TRUE,
                vals |-> vals, times |-> times]}
    ELSE IF reduce
    THEN {[kind |-> "reduced", shape |-> Tail(o.shape), vals |-> vals]}
    ELSE IF IsRagged(vals)
    THEN {Raise(e) : e \in RaggedErrors}
    ELSE {[kind |-> "values", vals |-> vals]}

(***************************************************************************)
(* pericenter, apocenter, zmax.  Each returns the set of its outcomes, an  *)
(* outcome being the value returned or the exception raised (res) and the  *)
(* steps taken (log): "t" for a read of the time array, "getitem" for the  *)
(* reversed copy, "_max_helper" for every extremum search.                 *)
(***************************************************************************)
\* variant: the default reducer is let through
reject_custom_only(return_times, func) ==
    return_times /\ func \notin {"None", "mean"}

\* times are asked for together with a reducer
reject(return_times, func) == return_times /\ func # "None"

\* the loop over orbit_gen(): the first exception ends it
collect(bodies) ==
    LET bad == {i \in 1..Len(bodies) : IsRaise(bodies[i])}
    IN IF bad # {}
       THEN LET i == CHOOSE x \in bad : \A y \in bad : x <= y
            IN [kind |-> "raise", exc |-> bodies[i].exc,
                log |-> [j \in 1..i |-> "_max_helper"]]
       ELSE [kind |-> "ok",
             vals  |-> [i \in 1..Len(bodies) |-> bodies[i].val],
             times |-> [i \in 1..Len(bodies) |-> bodies[i].time],
             log   |-> [j \in 1..Len(bodies) |-> "_max_helper"]]

\* the statements after the loop body is known: the time check, the reversed
\* copy, the loop and _max_return_helper
finish(o, s, c, return_times, func) ==
    LET lg == <<"t">> \o (IF Last(o.t) < o.t[1] THEN <<"getitem">> ELSE << >>)
              \o c.log
    IN IF IsRaise(c)
       THEN {[res |-> Raise(c.exc), log |-> lg]}
       ELSE {[res |-> r, log |-> lg] :
                r \in _max_return_helper(s, c.vals, c.times,
                                         return_times, func # "None")}

peri_body(orbit, func, approximate) ==
    LET h == _max_helper(orbit, Neg(Column(physicsspherical_r(orbit), 1)),
                         approximate)
    IN IF IsRaise(h) THEN h
       ELSE LET f == apply_func(func, negate(h.vals, h.refined), h.refined)
            IN IF IsRaise(f) THEN f
               ELSE [kind |-> "ok", val |-> f.val, time |-> h.times]

pericenter(o, return_times, func, approximate) ==
    IF reject(return_times, func)
    THEN {[res |-> Raise("ValueError"), log |-> << >>]}
    ELSE IF o.t = NoTime
    THEN {[res |-> Raise("TypeError"), log |-> <<"t">>]}
    ELSE
      LET s == IF Last(o.t) < o.t[1] THEN getitem_rev(o) ELSE o
          g == orbit_gen(s)
          c == collect([i \in 1..Len(g) |-> peri_body(g[i], func, approximate)])
      IN finish(o, s, c, return_times, func)

apo_body(orbit, func, approximate) ==
    LET h == _max_helper(orbit, Column(physicsspherical_r(orbit), 1),
                         approximate)
    IN IF IsRaise(h) THEN h
       ELSE LET f == apply_func(func, h.vals, h.refined)
            IN IF IsRaise(f) THEN f
               ELSE [kind |-> "ok", val |-> f.val, time |-> h.times]

apocenter(o, return_times, func, approximate) ==
    IF reject(return_times, func)
    THEN {[res |-> Raise("ValueError"), log |-> << >>]}
    ELSE IF o.t = NoTime
    THEN {[res |-> Raise("TypeError"), log |-> <<"t">>]}
    ELSE
      LET s == IF Last(o.t) < o.t[1] THEN getitem_rev(o) ELSE o
          g == orbit_gen(s)
          c == collect([i \in 1..Len(g) |-> apo_body(g[i], func, approximate)])
      IN finish(o, s, c, return_times, func)

zmax_body(orbit, func, approximate) ==
    LET z == Column(cylindrical_z(orbit), 1)
        h == _max_helper(orbit, [k \in 1..Len(z) |-> Abs(z[k])], approximate)
    IN IF IsRaise(h) THEN h
       ELSE LET f == apply_func(func, h.vals, h.refined)
            IN IF IsRaise(f) THEN f
               ELSE [kind |-> "ok", val |-> f.val, time |-> h.times]

zmax(o, return_times, func, approximate) ==
    IF reject(return_times, func)
    THEN {[res |-> Raise("ValueError"), log |-> << >>]}
    ELSE IF o.t = NoTime
    THEN {[res |-> Raise("TypeError"), log |-> <<"t">>]}
    ELSE
      LET s == IF Last(o.t) < o.t[1] THEN getitem_rev(o) ELSE o
          g == orbit_gen(s)
          c == collect([i \in 1..Len(g) |-> zmax_body(g[i], func, approximate)])
      IN finish(o, s, c, return_times, func)

\* variant: pericenter and apocenter change places in the numerator
ecc_value_reversed(ra, rp, approximate) ==
    IF ~approximate THEN [sym |-> "ecc", ra |-> ra, rp |-> rp]
    ELSE IF ra.den = 0 \/ rp.den = 0 THEN NaN
    ELSE IF ra.num * rp.den + rp.num * ra.den = 0 THEN NaN
    ELSE [num |-> rp.num * ra.den - ra.num * rp.den,
          den |-> ra.num * rp.den + rp.num * ra.den]

\* (ra - rp) / (ra + rp) of two fractions; refined values stay terms
ecc_value(ra, rp, approximate) ==
    IF ~approximate THEN [sym |-> "ecc", ra |-> ra, rp |-> rp]
    ELSE IF ra.den = 0 \/ rp.den = 0 THEN NaN
    ELSE IF ra.num * rp.den + rp.num * ra.den = 0 THEN NaN
    ELSE [num |-> ra.num * rp.den - rp.num * ra.den,
          den |-> ra.num * rp.den + rp.num * ra.den]

\* eccentricity(approximate=...)
eccentricity(o, approximate) ==
    LET ra == CHOOSE x \in apocenter(o, FALSE, "mean", approximate) : TRUE
    IN IF IsRaise(ra.res) THEN {ra}
       ELSE
         LET rp == CHOOSE x \in pericenter(o, FALSE, "mean", approximate) : TRUE
         IN IF IsRaise(rp.res) THEN {[res |-> rp.res, log |-> ra.log \o rp.log]}
            ELSE {[res |-> [kind  |-> "ecc", shape |-> ra.res.shape,
                            vals  |-> [i \in 1..Len(ra.res.vals) |->
                                         ecc_value(ra.res.vals[i], rp.res.vals[i],
                                                   approximate)]],
                   log |-> ra.log \o rp.log]}

(***************************************************************************)
(* The radial period.                                                      *)
(***************************************************************************)
\* mean spacing of the times of successive interior maxima of f
peak_to_peak_period(tt, f) ==
    LET ix == SortedSeq({i \in argrelmax_wrap(f) : i # 1 /\ i # Len(f)})
    IN IF Len(ix) < 2 THEN NaN
       ELSE [num |-> SumSeq([j \in 1..(Len(ix) - 1) |-> tt[ix[j + 1]] - tt[ix[j]]]),
             den |-> Len(ix) - 1]

\* variant: the radial argument is looked at before the time array
estimate_period_radial_first(o, radial) ==
    IF ~radial THEN {[res |-> Raise("NotImplementedError"), log |-> << >>]}
    ELSE IF o.t = NoTime THEN {[res |-> Raise("ValueError"), log |-> <<"t">>]}
    ELSE LET r == physicsspherical_r(o)
         IN {[res |-> [kind |-> "period", scalar |-> norbits(o) = 1,
                       vals |-> [n \in 1..norbits(o) |->
                                   peak_to_peak_period(o.t, Column(r, n))]],
              log |-> <<"t">>]}

\* variant: the radial period is returned whatever the radial argument says
estimate_period_always_radial(o, radial) ==
    IF o.t = NoTime THEN {[res |-> Raise("ValueError"), log |-> <<"t">>]}
    ELSE LET r == physicsspherical_r(o)
         IN {[res |-> [kind |-> "period", scalar |-> norbits(o) = 1,
                       vals |-> [n \in 1..norbits(o) |->
                                   peak_to_peak_period(o.t, Column(r, n))]],
              log |-> <<"t">>]}

estimate_period(o, radial) ==
    IF o.t = NoTime THEN {[res |-> Raise("ValueError"), log |-> <<"t">>]}
    ELSE IF radial
    THEN LET r == physicsspherical_r(o)
         IN {[res |-> [kind |-> "period", scalar |-> norbits(o) = 1,
                       vals |-> [n \in 1..norbits(o) |->
                                   peak_to_peak_period(o.t, Column(r, n))]],
              log |-> <<"t">>]}
    ELSE {[res |-> Raise("NotImplementedError"), log |-> <<"t">>]}

(***************************************************************************)
(* Circulation.                                                            *)
(***************************************************************************)
\* 1E-13 in units of 1e-14
Threshold == 10

\* variant: only the sign is compared
broken_sign_only(L0, Lk) == Sign(L0) # Sign(Lk)

\* the test of one later sample against the first one
broken(L0, Lk) == Sign(L0) # Sign(Lk) \/ Abs(Lk) < Threshold

circulation(o) ==
    LET L == angular_momentum(o)
        single_orbit == Len(o.shape) < 2
        nt == Len(L[1])
        nb == Len(L[1][1])
        cnd(ii, k, n) == broken(L[ii][1][n], L[ii][k][n])
        circ == [ii \in 1..3 |->
                    [n \in 1..nb |->
                        IF \E k \in 2..nt : cnd(ii, k, n) THEN 0 ELSE 1]]
    IN IF single_orbit
       THEN [kind |-> "circ", single |-> TRUE,
             circ |-> [ii \in 1..3 |-> circ[ii][1]]]
       ELSE [kind |-> "circ", single |-> FALSE, circ |-> circ]

(***************************************************************************)
(* The dynamics context of the orbit: potential, frame and the memoized    *)
(* Hamiltonian.  An object is told from an equal one by the number (id) of *)
(* its construction; built counts the Hamiltonians constructed so far from *)
(* the potential and the frame of this instance.                           *)
(***************************************************************************)
None == [kind |-> "None"]

\* the instance has no attribute _hamiltonian
Unset == [kind |-> "unset"]

ThePotential == [kind |-> "potential"]

TheFrame == [kind |-> "frame"]

\* Hamiltonian(potential=..., frame=...)
Hamiltonian(p, f, id) ==
    [kind |-> "Hamiltonian", potential |-> p, frame |-> f, id |-> id]

Dyn == [potential |-> potential, frame |-> frame,
        _hamiltonian |-> _hamiltonian, built |-> built]

\* variant: the constructed object is not stored
hamiltonian_no_store(d) ==
    IF d.potential = None \/ d.frame = None
    THEN [value |-> None, _hamiltonian |-> d._hamiltonian, built |-> d.built]
    ELSE IF d._hamiltonian # Unset
    THEN [value |-> d._hamiltonian, _hamiltonian |-> d._hamiltonian,
          built |-> d.built]
    ELSE [value |-> Hamiltonian(d.potential, d.frame, d.built + 1),
          _hamiltonian |-> d._hamiltonian, built |-> d.built + 1]

\* one read of the property: the value returned and the attribute and the
\* number of constructions after it
hamiltonian(d) ==
    IF d.potential = None \/ d.frame = None
    THEN [value |-> None, _hamiltonian |-> d._hamiltonian, built |-> d.built]
    ELSE IF d._hamiltonian # Unset
    THEN [value |-> d._hamiltonian, _hamiltonian |-> d._hamiltonian,
          built |-> d.built]
    ELSE LET h == Hamiltonian(d.potential, d.frame, d.built + 1)
         IN [value |-> h, _hamiltonian |-> h, built |-> d.built + 1]

\* the dynamics context after a read that returned r
After(d, r) ==
    [potential |-> d.potential, frame |-> d.frame,
     _hamiltonian |-> r._hamiltonian, built |-> r.built]

\* an orbit constructed without potential, frame or hamiltonian
NoDynamics ==
    /\ potential = None
    /\ frame = None
    /\ _hamiltonian = Unset
    /\ built = 0

(***************************************************************************)
(* The methods that read the hamiltonian property.  Each returns its       *)
(* value or exception (res), its reads of the property, in order (log),    *)
(* and the dynamics context afterwards (dyn).  What the super class        *)
(* computes from the value read is kept as a term.                         *)
(***************************************************************************)
\* the event of a read that returned r
Read(r) == [ev |-> "hamiltonian", value |-> r.value]

GivenUnits == [kind |-> "units"]

GivenPotential == [kind |-> "potential", given |-> TRUE]

GivenHamiltonian ==
    [kind |-> "Hamiltonian", potential |-> GivenPotential, frame |-> None,
     id |-> 0]

\* orbit.hamiltonian
read_hamiltonian(d) ==
    LET r == hamiltonian(d)
    IN [res |-> r.value, log |-> <<Read(r)>>, dyn |-> After(d, r)]

w(d, units) ==
    IF units # None
    THEN [res |-> [kind |-> "w", units |-> units], log |-> << >>, dyn |-> d]
    ELSE LET r1 == hamiltonian(d)
             d1 == After(d, r1)
         IN IF r1.value = None
            THEN [res |-> [kind |-> "w", units |-> [kind |-> "dimensionless"]],
                  log |-> <<Read(r1)>>, dyn |-> d1]
            ELSE LET r2 == hamiltonian(d1)
                 IN [res |-> [kind |-> "w",
                              units |-> [kind |-> "units", of |-> r2.value]],
                     log |-> <<Read(r1), Read(r2)>>, dyn |-> After(d1, r2)]

potential_energy(d, pot) ==
    LET r1 == hamiltonian(d)
        d1 == After(d, r1)
    IN IF r1.value = None /\ pot = None
       THEN [res |-> Raise("ValueError"), log |-> <<Read(r1)>>, dyn |-> d1]
       ELSE IF pot = None
       THEN LET r2 == hamiltonian(d1)
            IN [res |-> [kind |-> "potential_energy",
                         potential |-> r2.value.potential],
                log |-> <<Read(r1), Read(r2)>>, dyn |-> After(d1, r2)]
       ELSE [res |-> [kind |-> "potential_energy", potential |-> pot],
             log |-> <<Read(r1)>>, dyn |-> d1]

\* ham is None, a Hamiltonian or a potential (deprecated)
energy(d, ham) ==
    LET r1 == hamiltonian(d)
        d1 == After(d, r1)
    IN IF r1.value = None /\ ham = None
       THEN [res |-> Raise("ValueError"), log |-> <<Read(r1)>>, dyn |-> d1]
       ELSE IF ham = None
       THEN LET r2 == hamiltonian(d1)
            IN [res |-> [kind |-> "energy", hamiltonian |-> r2.value],
                log |-> <<Read(r1), Read(r2)>>, dyn |-> After(d1, r2)]
       ELSE IF ham.kind = "potential"
       THEN [res |-> [kind |-> "energy",
                      hamiltonian |-> [kind |-> "Hamiltonian",
                                       potential |-> ham, frame |-> None,
                                       id |-> 0]],
             log |-> <<Read(r1), [ev |-> "DeprecationWarning"]>>, dyn |-> d1]
       ELSE [res |-> [kind |-> "energy", hamiltonian |-> ham],
             log |-> <<Read(r1)>>, dyn |-> d1]

\* the orbit returned is built with hamiltonian=self.hamiltonian
represent_as(d) ==
    LET r == hamiltonian(d)
    IN [res |-> [kind |-> "represented",
                 potential |-> IF r.value = None THEN None
                               ELSE r.value.potential,
                 frame |-> IF r.value = None THEN None ELSE r.value.frame],
        log |-> <<Read(r)>>, dyn |-> After(d, r)]

(***************************************************************************)
(* align_circulation_with_z.  An array is its shape and its entries: at is *)
(* the entry of a 0-d array, at[i] of a 1-d, at[i][n] of a 2-d array and   *)
(* at[i][n][j] of a 3-d array.                                             *)
(***************************************************************************)
\* the array circulation() returns
asarray(c) ==
    IF c.single THEN [shape |-> <<3>>, at |-> c.circ]
    ELSE [shape |-> <<3, Len(c.circ[1])>>, at |-> c.circ]

\* atleast_2d(circulation, insert_axis=1)
atleast_2d(c) ==
    IF Len(c.shape) = 0
    THEN [shape |-> <<1, 1>>, at |-> << <<c.at>> >>]
    ELSE IF Len(c.shape) = 1
    THEN [shape |-> <<c.shape[1], 1>>,
          at |-> [i \in 1..c.shape[1] |-> <<c.at[i]>>]]
    ELSE c

\* variant: only the number of axes is compared
shape_mismatch_axes_only(c, nb) == c.shape[1] # 3

\* circulation.shape[0] != self.ndim or circulation.shape[1] != pos.shape[2]
shape_mismatch(c, nb) == c.shape[1] # 3 \/ c.shape[2] # nb

\* bool() of an array of more than two dimensions indexed by [i, n] is
\* defined only when it has one element
ambiguous(c) == Len(c.shape) > 2 /\ c.shape[3] # 1

\* circulation[i, n] where it is used as a number
entry(c, i, n) == IF Len(c.shape) > 2 THEN c.at[i][n][1] ELSE c.at[i][n]

\* variant: only a box orbit is left alone
skip_box_only(col) == \A i \in 1..3 : col[i] = 0

\* already circulating about z or box orbit
skip(col) == col[3] = 1 \/ \A i \in 1..3 : col[i] = 0

\* variant: y is looked at before x
pick_axis_y_first(col) ==
    IF col[2] = 1 THEN 2 ELSE IF col[1] = 1 THEN 1 ELSE 0

\* the axis exchanged with z (circ + 1), 0 for 'Should never get here'
pick_axis(col) ==
    IF col[1] = 1 THEN 1 ELSE IF col[2] = 1 THEN 2 ELSE 0

\* variant: the third component is overwritten but not moved
exchange_half(v, c) == [v EXCEPT ![3] = v[c]]

\* components c and z of a vector exchanged
exchange(v, c) == [v EXCEPT ![c] = v[3], ![3] = v[c]]

\* the events of the loop body for member n
member_events(col, n) ==
    IF skip(col) THEN << >>
    ELSE (IF col[1] + col[2] + col[3] > 1
          THEN << [ev |-> "warning", n |-> n] >> ELSE << >>)
         \o (IF pick_axis(col) = 0 THEN << >>
             ELSE << [ev |-> "swap", n |-> n, axis |-> pick_axis(col)] >>)

RECURSIVE events_upto(_, _)
events_upto(cols, m) ==
    IF m = 0 THEN << >>
    ELSE events_upto(cols, m - 1) \o member_events(cols[m], m)

\* the set of outcomes: the value returned or the exception raised (res), the
\* events (log) and the dynamics context of the input orbit afterwards (dyn)
align_circulation_with_z(o, d, given) ==
    LET c  == atleast_2d(IF given = None THEN asarray(circulation(o))
                         ELSE given)
        nb == Len(o.pos[1])
    IN IF shape_mismatch(c, nb)
       THEN {[res |-> Raise("ValueError"), log |-> << >>, dyn |-> d]}
       ELSE IF ambiguous(c)
       THEN {[res |-> Raise("ValueError"), log |-> << >>, dyn |-> d]}
       ELSE
         LET cols == [n \in 1..nb |-> [i \in 1..3 |-> entry(c, i, n)]]
             bad  == {n \in 1..nb : ~skip(cols[n]) /\ pick_axis(cols[n]) = 0}
             moved(v, n) == IF skip(cols[n]) THEN v
                            ELSE exchange(v, pick_axis(cols[n]))
         IN IF bad # {}
            THEN {[res |-> Raise("RuntimeError"),
                   log |-> events_upto(cols,
                               CHOOSE n \in bad : \A m \in bad : n <= m),
                   dyn |-> d]}
            ELSE
              LET h == hamiltonian(d)
              IN {[res |-> [kind  |-> "orbit",
                            pos   |-> [k \in 1..Len(o.pos) |->
                                        [n \in 1..nb |-> moved(o.pos[k][n], n)]],
                            vel   |-> [k \in 1..Len(o.vel) |->
                                        [n \in 1..nb |-> moved(o.vel[k][n], n)]],
                            t     |-> o.t,
                            shape |-> o.shape,
                            potential |-> IF h.value = None THEN None
                                          ELSE h.value.potential,
                            frame |-> IF h.value = None THEN None
                                      ELSE h.value.frame],
                   log |-> events_upto(cols, nb)
                           \o <<Read(h)>>,
                   dyn |-> After(d, h)]}

(***************************************************************************)
(* Initial states: the orbits the methods are called on.                   *)
(***************************************************************************)
NoCall == [name |-> "init", return_times |-> FALSE, func |-> "None",
           approximate |-> FALSE, radial |-> FALSE, arr |-> "r"]

MkCall(name, return_times, func, approximate, radial, arr) ==
    [name |-> name, return_times |-> return_times, func |-> func,
     approximate |-> approximate, radial |-> radial, arr |-> arr]

\* strictly increasing and strictly decreasing sample times
FwdTime(nt) == [k \in 1..nt |-> 10 * k]

RevTime(nt) == [k \in 1..nt |-> 10 * (nt + 1 - k)]

Times(nt) == {NoTime, FwdTime(nt), RevTime(nt)}

Shapes(maxSingle, maxBatch) ==
    {<<nt>> : nt \in 1..maxSingle}
    \cup {<<nt, nb>> : nt \in 1..maxBatch, nb \in 1..MaxOrbits}

NBodies(sh) == IF Len(sh) < 2 THEN 1 ELSE sh[2]

\* single orbits through ExtremaPoints, the bodies of a batch through their
\* BatchPoints, all at rest
Init ==
    /\ shape \in Shapes(MaxTimes, BatchTimes)
    /\ IF Len(shape) < 2
       THEN pos \in [1..shape[1] -> [1..1 -> ExtremaPoints]]
       ELSE \E b \in [1..shape[1] -> [1..shape[2] -> 1..2]] :
               pos = [k \in 1..shape[1] |->
                        [n \in 1..shape[2] |-> BatchPoints(n)[b[k][n]]]]
    /\ vel = [k \in 1..shape[1] |-> [n \in 1..NBodies(shape) |-> Zero3]]
    /\ t \in Times(shape[1])
    /\ NoDynamics
    /\ call = NoCall
    /\ result = [kind |-> "none"]
    /\ log = << >>

\* orbits through CircPoints; in a batch one body runs through CircPoints
\* and the others through CircBatchPoints
InitCirc ==
    /\ shape \in Shapes(MaxCircTimes, MaxCircTimes)
    /\ \E rich \in 1..NBodies(shape) :
         \E r \in [1..shape[1] -> 1..Len(CircPoints)] :
            \E q \in [1..shape[1] -> [1..NBodies(shape) -> CircBatchPoints]] :
               LET pv(k, n) == CircPoints[IF n = rich THEN r[k] ELSE q[k][n]]
               IN /\ pos = [k \in 1..shape[1] |->
                             [n \in 1..NBodies(shape) |-> pv(k, n).p]]
                  /\ vel = [k \in 1..shape[1] |->
                             [n \in 1..NBodies(shape) |-> pv(k, n).v]]
    /\ t \in {NoTime, FwdTime(shape[1])}
    /\ NoDynamics
    /\ call = NoCall
    /\ result = [kind |-> "none"]
    /\ log = << >>

(***************************************************************************)
(* The orbits and the circulation arrays align_circulation_with_z is       *)
(* called with.  A body follows one of six tracks through AlignPoints,     *)
(* whose circulation over two or more samples is [1,0,0], [0,1,0],         *)
(* [1,1,1], [0,0,0], [0,0,1] and [1,1,0].                                  *)
(***************************************************************************)
\* CircPoints and a point of angular momentum (20,20,-20)
AlignPoints == Append(CircPoints, [p |-> <<-4, 0, -4>>, v |-> <<0, 5, 5>>])

Tracks == 1..6

\* the tracks of the bodies of a batch after the first one
OtherTracks == {1, 5}

\* the point of track j at sample k
Track(j, k) ==
    IF j = 1 THEN (IF k = 1 THEN 1 ELSE 3)
    ELSE IF j = 2 THEN (IF k = 1 THEN 1 ELSE 2)
    ELSE IF j = 3 THEN 1
    ELSE IF j = 4 THEN 5
    ELSE IF j = 5 THEN 4
    ELSE (IF k = 1 THEN 1 ELSE 6)

\* the columns of a supplied circulation array
Columns == {<<a, b, c>> : a \in 0..1, b \in 0..1, c \in 0..1} \cup {<<2, 0, 0>>}

OtherColumns == {<<0, 0, 1>>, <<1, 0, 0>>}

\* the (3, N) array of the columns cols
Array2(cols) ==
    [shape |-> <<3, Len(cols)>>,
     at |-> [i \in 1..3 |-> [n \in 1..Len(cols) |-> cols[n][i]]]]

\* the array of shape sh all of whose columns are 1, 0, 0, ...
PatternArray(sh) ==
    LET e(i) == IF i = 1 THEN 1 ELSE 0
    IN [shape |-> sh,
        at |-> IF Len(sh) = 0 THEN 1
               ELSE IF Len(sh) = 1 THEN [i \in 1..sh[1] |-> e(i)]
               ELSE IF Len(sh) = 2
               THEN [i \in 1..sh[1] |-> [n \in 1..sh[2] |-> e(i)]]
               ELSE [i \in 1..sh[1] |->
                       [n \in 1..sh[2] |-> [j \in 1..sh[3] |-> e(i)]]]]

\* shapes other than (3, N)
OddShapes(N) ==
    {<< >>, <<3>>, <<2>>, <<2, N>>, <<3, N + 1>>, <<3, N, 1>>, <<3, N, 2>>}
    \cup (IF N > 1 THEN {<<3, N - 1>>} ELSE {})

GivenArrays(N) ==
    {Array2(cols) : cols \in {c \in [1..N -> Columns] :
                                 \A n \in 2..N : c[n] \in OtherColumns}}
    \cup {PatternArray(sh) : sh \in OddShapes(N)}

InitAlign ==
    /\ shape \in Shapes(MaxCircTimes, MaxCircTimes)
    /\ \E j \in {f \in [1..NBodies(shape) -> Tracks] :
                    \A n \in 2..NBodies(shape) : f[n] \in OtherTracks} :
          /\ pos = [k \in 1..shape[1] |->
                      [n \in 1..NBodies(shape) |-> AlignPoints[Track(j[n], k)].p]]
          /\ vel = [k \in 1..shape[1] |->
                      [n \in 1..NBodies(shape) |-> AlignPoints[Track(j[n], k)].v]]
    /\ t \in {NoTime, FwdTime(shape[1])}
    /\ potential \in {None, ThePotential}
    /\ frame \in {None, TheFrame}
    /\ _hamiltonian = Unset
    /\ built = 0
    /\ call = NoCall
    /\ result = [kind |-> "none"]
    /\ log = << >>

\* positions of radial distances 1, 3, 5 and 7
EccPoints == {<<1, 0, 0>>, <<2, -1, -2>>, <<3, 4, 0>>, <<2, 3, 6>>}

\* single orbits at rest through EccPoints, stored in chronological order
InitEcc ==
    /\ shape \in {<<nt>> : nt \in 1..MaxEccTimes}
    /\ pos \in [1..shape[1] -> [1..1 -> EccPoints]]
    /\ vel = [k \in 1..shape[1] |-> <<Zero3>>]
    /\ t = FwdTime(shape[1])
    /\ NoDynamics
    /\ call = NoCall
    /\ result = [kind |-> "none"]
    /\ log = << >>

(***************************************************************************)
(* Actions: one call of a method on the orbit.  A behaviour is one call on  *)
(* a freshly constructed orbit: no method of this model changes the orbit, *)
(* so a later call starts from what the first one started from.            *)
(***************************************************************************)
Fresh == call = NoCall

Returns(c, outs) ==
    \E out \in outs :
        /\ call' = c
        /\ result' = out.res
        /\ log' = out.log
        /\ UNCHANGED <<pos, vel, t, shape, potential, frame, _hamiltonian, built>>

Pericenter ==
    Fresh /\ \E rt \in BOOLEAN, f \in Funcs, ap \in BOOLEAN :
        Returns(MkCall("pericenter", rt, f, ap, FALSE, "r"),
                pericenter(Self, rt, f, ap))

Apocenter ==
    Fresh /\ \E rt \in BOOLEAN, f \in Funcs, ap \in BOOLEAN :
        Returns(MkCall("apocenter", rt, f, ap, FALSE, "r"),
                apocenter(Self, rt, f, ap))

Zmax ==
    Fresh /\ \E rt \in BOOLEAN, f \in Funcs, ap \in BOOLEAN :
        Returns(MkCall("zmax", rt, f, ap, FALSE, "r"),
                zmax(Self, rt, f, ap))

Eccentricity ==
    Fresh /\ \E ap \in BOOLEAN :
        Returns(MkCall("eccentricity", FALSE, "mean", ap, FALSE, "r"),
                eccentricity(Self, ap))

EstimatePeriod ==
    Fresh /\ \E radial \in BOOLEAN :
        Returns(MkCall("estimate_period", FALSE, "None", FALSE, radial, "r"),
                estimate_period(Self, radial))

\* the series _max_helper is called with: r, -r or |z| of the orbit
Series(o, arr) ==
    IF arr = "r" THEN Column(physicsspherical_r(o), 1)
    ELSE IF arr = "neg_r" THEN Neg(Column(physicsspherical_r(o), 1))
    ELSE LET z == Column(cylindrical_z(o), 1)
         IN [k \in 1..Len(z) |-> Abs(z[k])]

MaxHelper ==
    Fresh /\ \E arr \in {"r", "neg_r", "abs_z"}, ap \in BOOLEAN :
        Returns(MkCall("_max_helper", FALSE, "None", ap, FALSE, arr),
                {[res |-> _max_helper(Self, Series(Self, arr), ap),
                  log |-> <<"t">>]})

Circulation ==
    Fresh /\ Returns(MkCall("circulation", FALSE, "None", FALSE, FALSE, "r"),
            {[res |-> circulation(Self), log |-> << >>]})

(***************************************************************************)
(* Sequences of calls on one orbit that read the hamiltonian property; log *)
(* keeps the events of all the calls so far.                               *)
(***************************************************************************)
\* single orbits of MaxCircTimes samples, with or without potential and frame
InitHam ==
    /\ shape = <<MaxCircTimes>>
    /\ \E j \in Tracks :
          /\ pos = [k \in 1..shape[1] |-> <<AlignPoints[Track(j, k)].p>>]
          /\ vel = [k \in 1..shape[1] |-> <<AlignPoints[Track(j, k)].v>>]
    /\ t = FwdTime(shape[1])
    /\ potential \in {None, ThePotential}
    /\ frame \in {None, TheFrame}
    /\ _hamiltonian = Unset
    /\ built = 0
    /\ call = NoCall
    /\ result = [kind |-> "none"]
    /\ log = << >>

CanRead == Len(log) < MaxReads

\* the call c with the outcome out
Reads(c, out) ==
    /\ call' = c
    /\ result' = out.res
    /\ log' = log \o out.log
    /\ _hamiltonian' = out.dyn._hamiltonian
    /\ built' = out.dyn.built
    /\ UNCHANGED <<pos, vel, t, shape, potential, frame>>

ReadHamiltonian ==
    CanRead /\ Reads([name |-> "hamiltonian"], read_hamiltonian(Dyn))

W ==
    CanRead /\ \E units \in {None, GivenUnits} :
        Reads([name |-> "w", units |-> units], w(Dyn, units))

PotentialEnergy ==
    CanRead /\ \E pot \in {None, GivenPotential} :
        Reads([name |-> "potential_energy", potential |-> pot],
              potential_energy(Dyn, pot))

Energy ==
    CanRead /\ \E ham \in {None, GivenHamiltonian, GivenPotential} :
        Reads([name |-> "energy", hamiltonian |-> ham], energy(Dyn, ham))

RepresentAs ==
    CanRead /\ Reads([name |-> "represent_as"], represent_as(Dyn))

AlignAgain ==
    CanRead /\ \E out \in align_circulation_with_z(Self, Dyn, None) :
        Reads([name |-> "align_circulation_with_z", circulation |-> None], out)

AlignCirculationWithZ ==
    Fresh /\ \E given \in {None} \cup GivenArrays(NBodies(shape)) :
        \E out \in align_circulation_with_z(Self, Dyn, given) :
            Reads([name |-> "align_circulation_with_z",
                   circulation |-> given], out)

Next ==
    \/ Pericenter
    \/ Apocenter
    \/ Zmax
    \/ Eccentricity
    \/ EstimatePeriod
    \/ MaxHelper

Spec == Init /\ [][Next]_vars

NextCirc == Circulation

SpecCirc == InitCirc /\ [][NextCirc]_vars

NextAlign == AlignCirculationWithZ

SpecAlign == InitAlign /\ [][NextAlign]_vars

NextEcc == Eccentricity

SpecEcc == InitEcc /\ [][NextEcc]_vars

NextHam ==
    \/ ReadHamiltonian
    \/ W
    \/ PotentialEnergy
    \/ Energy
    \/ RepresentAs
    \/ AlignAgain

SpecHam == InitHam /\ [][NextHam]_vars

(***************************************************************************)
(* Properties.                                                             *)
(***************************************************************************)
IsSingle == Len(shape) < 2

HasTime == t # NoTime

StrictlyIncreasing(s) == \A i \in 1..(Len(s) - 1) : s[i] < s[i + 1]

StrictlyDecreasing(s) == \A i \in 1..(Len(s) - 1) : s[i] > s[i + 1]

\* interior strict local maxima and minima of a series
InteriorMax(arr) ==
    {i \in 2..(Len(arr) - 1) : arr[i] > arr[i - 1] /\ arr[i] > arr[i + 1]}

InteriorMin(arr) ==
    {i \in 2..(Len(arr) - 1) : arr[i] < arr[i - 1] /\ arr[i] < arr[i + 1]}

Rank(i, I) == Cardinality({x \in I : x < i}) + 1

\* vals and times are the pairs (arr[i], tt[i]), i in I, in increasing order of i
ListsExactly(vals, times, arr, tt, I) ==
    /\ Len(vals) = Cardinality(I)
    /\ Len(times) = Cardinality(I)
    /\ \A i \in I : vals[Rank(i, I)] = arr[i] /\ times[Rank(i, I)] = tt[i]

\* the radial distances of body n of the orbit
R(n) == Column(physicsspherical_r(Self), n)

IsExtremaCall == call.name \in {"pericenter", "apocenter", "zmax"}

C2_PeriApoApproximate ==
    (/\ call.name \in {"pericenter", "apocenter"}
     /\ call.func = "None"
     /\ call.return_times
     /\ call.approximate
     /\ IsSingle
     /\ HasTime
     /\ Last(t) > t[1])
    => /\ result.kind = "pair"
       /\ ~result.nested
       /\ ListsExactly(result.vals, result.times, R(1), t,
                       IF call.name = "pericenter"
                       THEN InteriorMin(R(1)) ELSE InteriorMax(R(1)))

C2_Witness ==
    /\ call.name = "pericenter"
    /\ call.func = "None"
    /\ call.return_times
    /\ call.approximate
    /\ IsSingle
    /\ HasTime
    /\ Last(t) > t[1]
    /\ result.kind = "pair"
    /\ Len(result.vals) >= 1
    /\ result.vals[1] > 0
    /\ InteriorMax(R(1)) # {}

\* C3: pericenter, apocenter and zmax called with return_times=True and a
\* reducer that is not None raise ValueError, before the time array is read
\* and before any extremum search.
C3_TimesWithReducerRejected ==
    (IsExtremaCall /\ call.return_times /\ call.func # "None")
    => /\ result = Raise("ValueError")
       /\ log = << >>

\* the default reducer, on an orbit without a time array
C3_Witness ==
    /\ call.name = "zmax"
    /\ call.return_times
    /\ call.func = "mean"
    /\ ~HasTime
    /\ result = Raise("ValueError")

Reversed(s) == [k \in 1..Len(s) |-> s[Len(s) - k + 1]]

ForwardStored ==
    [pos |-> Reversed(pos), vel |-> Reversed(vel), t |-> Reversed(t),
     shape |-> shape]

\* the values the call c can return on the orbit o
Outcomes(o, c) ==
    IF c.name = "pericenter"
    THEN {x.res : x \in pericenter(o, c.return_times, c.func, c.approximate)}
    ELSE IF c.name = "apocenter"
    THEN {x.res : x \in apocenter(o, c.return_times, c.func, c.approximate)}
    ELSE IF c.name = "zmax"
    THEN {x.res : x \in zmax(o, c.return_times, c.func, c.approximate)}
    ELSE {x.res : x \in eccentricity(o, c.approximate)}

\* C5: on an orbit stored in reverse chronological order (t strictly
\* decreasing), pericenter, apocenter, zmax and eccentricity in approximate
\* mode return what they return on the same trajectory stored in forward
\* order, and the call leaves the orbit's arrays as they were.
C5_ReversedTime ==
    [][ (/\ call'.name \in {"pericenter", "apocenter", "zmax", "eccentricity"}
         /\ call'.approximate
         /\ HasTime
         /\ Len(t) >= 2
         /\ StrictlyDecreasing(t))
        => /\ result' \in Outcomes(ForwardStored, call')
           /\ pos' = pos /\ vel' = vel /\ t' = t /\ shape' = shape ]_vars

\* a batch stored in reverse order whose first body has a pericenter
C5_Witness ==
    /\ call.name = "pericenter"
    /\ call.approximate
    /\ call.func = "None"
    /\ call.return_times
    /\ HasTime
    /\ Len(t) >= 2
    /\ StrictlyDecreasing(t)
    /\ ~IsSingle
    /\ shape[2] >= 2
    /\ result.kind = "pair"
    /\ Len(result.vals[1]) >= 1
    /\ pos # Reversed(pos)

\* body i of the batch as an orbit of its own
Alone(i) ==
    [pos   |-> [k \in 1..Len(pos) |-> <<pos[k][i]>>],
     vel   |-> [k \in 1..Len(vel) |-> <<vel[k][i]>>],
     t     |-> t,
     shape |-> <<shape[1]>>]

AloneRes(i) == CHOOSE x \in Outcomes(Alone(i), call) : TRUE

\* the results on the bodies 1..n alone
RECURSIVE AloneUpTo(_)
AloneUpTo(n) == IF n = 0 THEN << >> ELSE Append(AloneUpTo(n - 1), AloneRes(n))

RECURSIVE SumOver(_, _)
SumOver(arr, I) ==
    IF I = {} THEN 0
    ELSE LET i == CHOOSE x \in I : TRUE
         IN arr[i] + SumOver(arr, I \ {i})

\* the series a method searches and the extrema of it that it reduces
Searched(name, i) ==
    IF name = "zmax"
    THEN [k \in 1..Len(pos) |-> Abs(pos[k][i][3])]
    ELSE R(i)

Extrema(name, i) ==
    IF name = "pericenter" THEN InteriorMin(Searched(name, i))
    ELSE InteriorMax(Searched(name, i))

\* mean, min or max of the elements of arr at the indices I (I not empty
\* for min and max)
Reduced(func, arr, I) ==
    IF func = "mean"
    THEN [num |-> SumOver(arr, I), den |-> Cardinality(I)]
    ELSE [num |-> IF func = "min"
                  THEN CHOOSE x \in {arr[i] : i \in I} : \A j \in I : x <= arr[j]
                  ELSE CHOOSE x \in {arr[i] : i \in I} : \A j \in I : x >= arr[j],
          den |-> 1]

\* C6: on a batch of N >= 2 orbits pericenter, apocenter and zmax treat
\* every body alone.  With a reducer the result has N entries, entry i
\* being the reducer applied to the extrema of body i; with func=None and
\* return_times=True it is two lists of N entries, the values and the times
\* of body i, of the same length.  Entry i is what the call returns on body
\* i alone, and the call raises exactly when it raises on some body alone.
C6_PerBody ==
    (/\ IsExtremaCall
     /\ ~IsSingle
     /\ shape[2] >= 2
     /\ HasTime
     /\ ~reject(call.return_times, call.func)
     /\ (call.return_times \/ call.func # "None"))
    => \E alone \in {AloneUpTo(shape[2])} :
         LET N == shape[2]
             bad == {i \in 1..N : alone[i].kind = "raise"}
         IN IF bad # {}
            THEN \E i \in bad : result = alone[i]
            ELSE IF call.return_times
            THEN /\ result.kind = "pair"
                 /\ result.nested
                 /\ Len(result.vals) = N
                 /\ Len(result.times) = N
                 /\ \A i \in 1..N :
                      /\ result.vals[i] = alone[i].vals
                      /\ result.times[i] = alone[i].times
                      /\ Len(result.vals[i]) = Len(result.times[i])
            ELSE /\ result.kind = "reduced"
                 /\ result.shape = <<N>>
                 /\ Len(result.vals) = N
                 /\ \A i \in 1..N :
                      /\ result.vals[i] = alone[i].vals[1]
                      /\ call.approximate =>
                           result.vals[i] =
                              Reduced(call.func, Searched(call.name, i),
                                      Extrema(call.name, i))

\* two bodies with different mean apocenters
C6_Witness ==
    /\ call.name = "apocenter"
    /\ call.func = "mean"
    /\ ~call.return_times
    /\ call.approximate
    /\ ~IsSingle
    /\ shape[2] >= 2
    /\ result.kind = "reduced"
    /\ result.vals[1].den > 0
    /\ result.vals[2].den > 0
    /\ result.vals[1] # result.vals[2]

\* C7: estimate_period on an orbit without a time array raises ValueError,
\* for either value of radial.
C7_PeriodNeedsTime ==
    (call.name = "estimate_period" /\ ~HasTime)
    => result = Raise("ValueError")

C7_Witness ==
    /\ call.name = "estimate_period"
    /\ ~HasTime
    /\ ~call.radial
    /\ result = Raise("ValueError")

Lcomp(a, k, n) == Cross(pos[k][n], vel[k][n])[a]

\* some sample after the first has another sign than the first, or a
\* magnitude below the threshold
Breaks(a, n) ==
    \E k \in 2..shape[1] :
        \/ Sign(Lcomp(a, k, n)) # Sign(Lcomp(a, 1, n))
        \/ Abs(Lcomp(a, k, n)) < Threshold

\* C9: circulation() returns for every orbit n and axis a an integer that is
\* 0 if and only if some sample k >= 1 has a sign of L[a,k,n] different from
\* that of L[a,0,n] or a magnitude below the threshold, and 1 otherwise; the
\* entries of orbit n are those circulation() returns on orbit n alone.
C9_Circulation ==
    (call.name = "circulation")
    => /\ result.kind = "circ"
       /\ result.single = IsSingle
       /\ IF IsSingle
          THEN \A a \in 1..3 :
                 result.circ[a] = IF Breaks(a, 1) THEN 0 ELSE 1
          ELSE \A a \in 1..3 : \A n \in 1..shape[2] :
                 /\ result.circ[a][n] = IF Breaks(a, n) THEN 0 ELSE 1
                 /\ result.circ[a][n] = circulation(Alone(n)).circ[a]

\* a batch with an axis that keeps its sign but falls below the threshold,
\* and another body that circulates about an axis
C9_Witness ==
    /\ call.name = "circulation"
    /\ ~IsSingle
    /\ shape[2] >= 2
    /\ \E a \in 1..3 : \E k \in 2..shape[1] :
          /\ Sign(Lcomp(a, k, 1)) = Sign(Lcomp(a, 1, 1))
          /\ Abs(Lcomp(a, k, 1)) < Threshold
          /\ Abs(Lcomp(a, 1, 1)) >= Threshold
          /\ result.circ[a][1] = 0
    /\ \E a \in 1..3 : result.circ[a][2] = 1

\* C10: for a trajectory, of any number of samples, whose angular momentum
\* is below the threshold about every axis at every sample, circulation()
\* returns zero for every axis.
C10_BoxOrbit ==
    (/\ call.name = "circulation"
     /\ \A a \in 1..3 : \A k \in 1..shape[1] : \A n \in 1..NBodies(shape) :
           Abs(Lcomp(a, k, n)) < Threshold)
    => \A a \in 1..3 :
          IF IsSingle THEN result.circ[a] = 0
          ELSE \A n \in 1..shape[2] : result.circ[a][n] = 0

IsAlign == call.name = "align_circulation_with_z"

\* the circulation of the orbit, and the one the call works with, as arrays
\* of at least two dimensions
Computed == atleast_2d(asarray(circulation(Self)))

Used == IF call.circulation = None THEN Computed
        ELSE atleast_2d(call.circulation)

\* the entries of member n
Col(c, n) == [i \in 1..3 |-> entry(c, i, n)]

XZ(v) == <<v[3], v[2], v[1]>>

YZ(v) == <<v[1], v[3], v[2]>>

\* the circulation array fits the orbit and every entry of it is one number
Fits(c) ==
    /\ c.shape[1] = 3
    /\ c.shape[2] = NBodies(shape)
    /\ Len(c.shape) > 2 => c.shape[3] = 1

\* C11: align_circulation_with_z returns, for every member whose circulation
\* has the z entry 1 or is all zero, the position and the velocity of the
\* input at every sample; the arrays of the input orbit are as they were
\* after the call, and the time array of the result is that of the input.
C11_AlignLeavesUnchanged ==
    [][ (call'.name = "align_circulation_with_z")
        => /\ pos' = pos /\ vel' = vel /\ t' = t /\ shape' = shape
           /\ result'.kind = "orbit" =>
                /\ result'.t = t
                /\ \E c \in {IF call'.circulation = None THEN Computed
                             ELSE atleast_2d(call'.circulation)} :
                     \A n \in 1..NBodies(shape) :
                        (Col(c, n)[3] = 1 \/ Col(c, n) = <<0, 0, 0>>)
                        => \A k \in 1..shape[1] :
                             /\ result'.pos[k][n] = pos[k][n]
                             /\ result'.vel[k][n] = vel[k][n] ]_vars

\* a batch one member of which is flagged about x and z and left alone
\* while another one is moved
C11_Witness ==
    /\ IsAlign
    /\ result.kind = "orbit"
    /\ ~IsSingle
    /\ shape[2] >= 2
    /\ HasTime
    /\ Fits(Used)
    /\ Col(Used, 1) = <<1, 0, 1>>
    /\ \A k \in 1..shape[1] : result.pos[k][1] = pos[k][1]
    /\ \E k \in 1..shape[1] : result.pos[k][2] # pos[k][2]

\* circulation() of the orbit returned, as an array
Recomputed ==
    atleast_2d(asarray(circulation([pos |-> result.pos, vel |-> result.vel,
                                    t |-> result.t, shape |-> result.shape])))

\* C12: for a member whose circulation is [1,0,0] (computed by the call, or
\* supplied and equal to the computed one) the orbit returned has x and z
\* exchanged in position and velocity at every sample and y as it was, and
\* circulation() of the orbit returned is [0,0,1] for that member; for
\* [0,1,0] the same with y and z.  A member whose circulation is [0,0,1] or
\* all zero is returned as it was.
C12_AlignSwaps ==
    (IsAlign /\ Fits(Used) /\ result.kind # "raise")
    => /\ result.kind = "orbit"
       /\ \A n \in 1..NBodies(shape) :
            (Col(Used, n) = Col(Computed, n))
            => /\ Col(Computed, n) = <<1, 0, 0>> =>
                    /\ \A k \in 1..shape[1] :
                         /\ result.pos[k][n] = XZ(pos[k][n])
                         /\ result.vel[k][n] = XZ(vel[k][n])
                    /\ Col(Recomputed, n) = <<0, 0, 1>>
               /\ Col(Computed, n) = <<0, 1, 0>> =>
                    /\ \A k \in 1..shape[1] :
                         /\ result.pos[k][n] = YZ(pos[k][n])
                         /\ result.vel[k][n] = YZ(vel[k][n])
                    /\ Col(Recomputed, n) = <<0, 0, 1>>
               /\ Col(Computed, n) \in {<<0, 0, 1>>, <<0, 0, 0>>} =>
                    \A k \in 1..shape[1] :
                         /\ result.pos[k][n] = pos[k][n]
                         /\ result.vel[k][n] = vel[k][n]

\* circulation computed by the call: a batch whose first member circulates
\* about y and whose second about x
C12_Witness ==
    /\ IsAlign
    /\ call.circulation = None
    /\ ~IsSingle
    /\ shape[2] >= 2
    /\ result.kind = "orbit"
    /\ Col(Computed, 1) = <<0, 1, 0>>
    /\ Col(Computed, 2) = <<1, 0, 0>>
    /\ Col(Recomputed, 1) = <<0, 0, 1>>
    /\ Col(Recomputed, 2) = <<0, 0, 1>>
    /\ result.pos[1][1] = YZ(pos[1][1])
    /\ result.pos[1][1] # pos[1][1]
    /\ result.vel[2][2] = XZ(vel[2][2])
    /\ result.vel[2][2] # vel[2][2]

\* every entry of the array is 0 or 1
BitsOnly(c) ==
    \A i \in 1..c.shape[1] : \A n \in 1..c.shape[2] :
        IF Len(c.shape) > 2
        THEN \A j \in 1..c.shape[3] : c.at[i][n][j] \in {0, 1}
        ELSE c.at[i][n] \in {0, 1}

\* C13: a supplied circulation array whose shape is not (3, number of
\* orbits) -- (3,) counting as (3, 1) -- ends the call in ValueError before
\* any component is exchanged, and no orbit is returned.
C13_ShapeMismatchRejected ==
    (/\ IsAlign
     /\ call.circulation # None
     /\ call.circulation.shape # <<3, NBodies(shape)>>
     /\ ~(NBodies(shape) = 1 /\ call.circulation.shape = <<3>>))
    => /\ result = Raise("ValueError")
       /\ log = << >>

\* C14: every member with more than one axis flagged has the multi-axis
\* warning emitted for it, and the call returns an orbit.
C14_MultiAxisWarning ==
    (IsAlign /\ Fits(Used) /\ BitsOnly(Used))
    => /\ result.kind = "orbit"
       /\ \A n \in 1..NBodies(shape) :
            (Col(Used, n)[1] + Col(Used, n)[2] + Col(Used, n)[3] > 1)
            => \E e \in 1..Len(log) : log[e] = [ev |-> "warning", n |-> n]

\* C15: a member flagged [1,1,0] has x and z exchanged, not y and z; the
\* call has one outcome; and no circulation array with entries in {0,1}
\* ends the call in RuntimeError.
C15_AxisPriority ==
    [][ (call'.name = "align_circulation_with_z")
        => \E c \in {IF call'.circulation = None THEN Computed
                     ELSE atleast_2d(call'.circulation)} :
             BitsOnly(c)
             => /\ result' # Raise("RuntimeError")
                /\ Cardinality(align_circulation_with_z(
                                   Self, Dyn, call'.circulation)) = 1
                /\ (/\ c.shape[1] = 3
                    /\ c.shape[2] = NBodies(shape)
                    /\ Len(c.shape) > 2 => c.shape[3] = 1)
                   => /\ result'.kind = "orbit"
                      /\ \A n \in 1..NBodies(shape) :
                           Col(c, n) = <<1, 1, 0>>
                           => \A k \in 1..shape[1] :
                                /\ result'.pos[k][n] = XZ(pos[k][n])
                                /\ result'.vel[k][n] = XZ(vel[k][n]) ]_vars

\* a member flagged [1,1,0] whose x, y and z differ
C15_Witness ==
    /\ IsAlign
    /\ Fits(Used)
    /\ Col(Used, 1) = <<1, 1, 0>>
    /\ result.kind = "orbit"
    /\ result.pos[1][1] = XZ(pos[1][1])
    /\ result.pos[1][1] # YZ(pos[1][1])
    /\ result.pos[1][1] # pos[1][1]
    /\ \E e \in 1..Len(log) : log[e] = [ev |-> "warning", n |-> 1]

\* C16: an axis is marked 1 only if the angular momentum about it is at no
\* sample, the first one included, below the threshold.
C16_FirstSampleDegenerate ==
    (call.name = "circulation")
    => \A a \in 1..3 : \A n \in 1..NBodies(shape) :
          (\E k \in 1..shape[1] : Abs(Lcomp(a, k, n)) < Threshold)
          => IF IsSingle THEN result.circ[a] = 0 ELSE result.circ[a][n] = 0

\* C17: for a series without an interior strict local maximum, on a single
\* orbit whose last time is after its first, _max_helper returns an empty
\* sequence of values and an empty sequence of times, in approximate and in
\* refined mode, and raises nothing.
C17_NoInteriorMaximum ==
    (/\ call.name = "_max_helper"
     /\ IsSingle
     /\ HasTime
     /\ Last(t) > t[1]
     /\ InteriorMax(Series(Self, call.arr)) = {})
    => /\ result.kind = "ok"
       /\ result.vals = << >>
       /\ result.times = << >>

\* the reads of the hamiltonian property so far
HamiltonianReads == {e \in 1..Len(log) : log[e].ev = "hamiltonian"}

\* C18: over any sequence of reads of the hamiltonian property, direct or by
\* w, potential_energy, energy, represent_as and align_circulation_with_z,
\* the Hamiltonian of the instance is constructed at most once and every
\* read returns that one object; with potential or frame missing every read
\* returns None and nothing is constructed or stored.
C18_HamiltonianOnce ==
    /\ built <= 1
    /\ IF potential = None \/ frame = None
       THEN /\ built = 0
            /\ _hamiltonian = Unset
            /\ \A e \in HamiltonianReads : log[e].value = None
       ELSE /\ \A e \in HamiltonianReads :
                 log[e].value = Hamiltonian(potential, frame, 1)
            /\ HamiltonianReads # {} =>
                 /\ built = 1
                 /\ _hamiltonian = Hamiltonian(potential, frame, 1)

\* three reads or more, the last ones by energy(), after one construction
C18_Witness ==
    /\ call.name = "energy"
    /\ call.hamiltonian = None
    /\ Cardinality(HamiltonianReads) >= 3
    /\ built = 1
    /\ result.kind = "energy"
    /\ result.hamiltonian = _hamiltonian
    /\ \E e \in 1..Len(log) : log[e].ev = "swap"

\* C19: on a single orbit with increasing time and positive radial
\* distances no two consecutive ones of which are equal, with an interior
\* local minimum and an interior local maximum of r, the approximate mean
\* pericenter is less than the approximate mean apocenter and
\* eccentricity(approximate=True) is greater than 0 and less than 1.
C19_EccentricityRange ==
    (/\ call.name = "eccentricity"
     /\ call.approximate
     /\ IsSingle
     /\ HasTime
     /\ StrictlyIncreasing(t)
     /\ \A k \in 1..shape[1] : R(1)[k] > 0
     /\ \A k \in 1..(shape[1] - 1) : R(1)[k] # R(1)[k + 1]
     /\ InteriorMin(R(1)) # {}
     /\ InteriorMax(R(1)) # {})
    => /\ SumOver(R(1), InteriorMin(R(1))) * Cardinality(InteriorMax(R(1)))
          < SumOver(R(1), InteriorMax(R(1))) * Cardinality(InteriorMin(R(1)))
       /\ result.kind = "ecc"
       /\ Len(result.vals) = 1
       /\ result.vals[1].den > 0
       /\ 0 < result.vals[1].num
       /\ result.vals[1].num < result.vals[1].den
       /\ result.vals[1].num * (SumOver(R(1), InteriorMax(R(1)))
                                  * Cardinality(InteriorMin(R(1)))
                                + SumOver(R(1), InteriorMin(R(1)))
                                  * Cardinality(InteriorMax(R(1))))
          = result.vals[1].den * (SumOver(R(1), InteriorMax(R(1)))
                                    * Cardinality(InteriorMin(R(1)))
                                  - SumOver(R(1), InteriorMin(R(1)))
                                    * Cardinality(InteriorMax(R(1))))

\* an orbit one pericenter of which lies farther out than one apocenter
C19_Witness ==
    /\ call.name = "eccentricity"
    /\ call.approximate
    /\ \A k \in 1..(shape[1] - 1) : R(1)[k] # R(1)[k + 1]
    /\ \E i \in InteriorMin(R(1)) : \E j \in InteriorMax(R(1)) :
          R(1)[i] > R(1)[j]
    /\ result.kind = "ecc"
    /\ 0 < result.vals[1].num
    /\ result.vals[1].num < result.vals[1].den

====
